---- MODULE Spec2Model ----
(***************************************************************************)
(* SingleInclude (src/main.cpp): the include-expansion engine              *)
(* parse_include and the part of main that runs it and writes the result.  *)
(*                                                                         *)
(* The recursion of parse_include is an explicit stack of frames; one      *)
(* action per step of the function.  A callee's `file` and `out`           *)
(* parameters are references to the caller's `temp` and `content`: the     *)
(* callee's frame carries their values and the return copies them back.    *)
(*                                                                         *)
(* The file system is the program's input.  It is fixed for a run, and     *)
(* the model fixes each part of it at the moment the program first         *)
(* observes it: whether a path is a regular file at the first              *)
(* fs::is_regular_file of it, the bytes of a file at the first open.       *)
(***************************************************************************)
EXTENDS Integers, Sequences, FiniteSets, TLC

(***************************************************************************)
(* Bounds of the model.  The code has no limit on the depth of the         *)
(* recursion; Call is followed while fewer than MaxDepth frames exist.     *)
(* Without --all a nested call needs a directive in a file not yet         *)
(* opened, so that MaxDepth > MaxDirectives leaves those runs uncut.       *)
(***************************************************************************)
MaxDirectives == 2   \* include directives in all files together
MaxPaths == 1        \* -I options on the command line
MaxDepth == 3        \* nested parse_include calls the model follows

Dirs == {"A", "B"}
Names == {"a", "b"}

(***************************************************************************)
(* fs::path: a sequence of components.  <<d>> is a directory, <<n>> a      *)
(* relative file name, <<d, n>> the file n in directory d.                 *)
(***************************************************************************)
Paths == {<<d, n>> : d \in Dirs, n \in Names}
RootPath == <<"A", "a">>

PathJoin(p, q) == p \o q                      \* operator/ of fs::path
parent_path(p) == SubSeq(p, 1, Len(p) - 1)

(***************************************************************************)
(* enum error_type, enum include_state_t, the banner.                      *)
(***************************************************************************)
E_NO_ERROR == 0
E_FILE_ERROR == 6

I_EXPENDED == "I_EXPENDED"
I_ALREADY_INCLUDED == "I_ALREADY_INCLUDED"
I_NOT_FOUND == "I_NOT_FOUND"

error_state(e, w) == [e |-> e, w |-> w]
NoPath == <<>>

(***************************************************************************)
(* Lines of text.  A source line is ordinary text (made distinct per file  *)
(* and position, so that a file's body can be recognised in the output),   *)
(* the empty line, or a line written as an include: '#', 'include', a      *)
(* token between two delimiters of one kind, and the text after them.      *)
(***************************************************************************)
Text(p, i) == [kind |-> "text", tok |-> <<>>, at |-> p, n |-> i, tail |-> <<>>]
Directive(k, t) == [kind |-> k, tok |-> <<t>>, at |-> <<>>, n |-> 0, tail |-> <<>>]
EmptyLine == [kind |-> "empty", tok |-> <<>>, at |-> <<>>, n |-> 0, tail |-> <<>>]

\* an include followed by more text on the line
Trailing(k, t, c) == [Directive(k, t) EXCEPT !.tail = c]

OpenDelim(k) == IF k = "angle" THEN "<" ELSE "\""
CloseDelim(k) == IF k = "angle" THEN ">" ELSE "\""

\* a comment after the include, and one that ends with the delimiter
PlainComment == <<" ", "/", "/", " ", "x">>
DelimComment(k) == <<" ", "/", "/", " ", OpenDelim(k), "x", CloseDelim(k)>>

\* the characters of a line ('include' and a file name are one symbol each)
Chars(line) ==
    CASE line.kind = "text" -> <<"x", ";">>
      [] line.kind = "empty" -> <<>>
      [] OTHER -> <<"#", "include", " ", OpenDelim(line.kind)>> \o line.tok
                     \o <<CloseDelim(line.kind)>> \o line.tail

Directives == {Directive(k, t) : k \in {"quote", "angle"}, t \in Names}

\* lines with text after the include
Trailings ==
    {Trailing("angle", "b", PlainComment),
     Trailing("quote", "b", DelimComment("angle")),
     Trailing("angle", "b", DelimComment("angle")),
     Trailing("quote", "b", DelimComment("quote"))}

RECURSIVE SkipSpace(_)
SkipSpace(s) == IF s # <<>> /\ s[1] = " " THEN SkipSpace(Tail(s)) ELSE s      \* ^\s*
RECURSIVE TrimSpace(_)
TrimSpace(s) ==                                                              \* \s*$
    IF s # <<>> /\ s[Len(s)] = " " THEN TrimSpace(SubSeq(s, 1, Len(s) - 1)) ELSE s

\* what follows ^\s*#\s*include\s* up to \s*$, or <<>> when the line does
\* not begin that way
AfterInclude(s) ==
    LET s1 == SkipSpace(s)
        s2 == IF s1 # <<>> /\ s1[1] = "#" THEN SkipSpace(Tail(s1)) ELSE <<>>
    IN IF s2 # <<>> /\ s2[1] = "include" THEN TrimSpace(SkipSpace(Tail(s2)))
       ELSE <<>>

\* <.*> and ".*" : the first and the last character are the delimiters
Delimited(r, open, close) == Len(r) >= 2 /\ r[1] = open /\ r[Len(r)] = close

\* regex_match(s, regex_include), regex_match(s, regex_system_include)
MatchInclude(s) ==
    LET r == AfterInclude(s)
    IN Delimited(r, "<", ">") \/ Delimited(r, "\"", "\"")
MatchSystemInclude(s) == Delimited(AfterInclude(s), "<", ">")

\* the token between the delimiters (main.cpp 312-324): from after the
\* first '<' or '"', spaces skipped, up to the next '>', '"' or space
RECURSIVE SkipTo(_, _)
SkipTo(s, stops) == IF s[1] \in stops THEN s ELSE SkipTo(Tail(s), stops)
RECURSIVE TakeTo(_, _)
TakeTo(s, stops) ==
    IF s[1] \in stops THEN <<>> ELSE <<s[1]>> \o TakeTo(Tail(s), stops)
TokenOf(s) == TakeTo(SkipSpace(Tail(SkipTo(s, {"<", "\""}))), {">", "\"", " "})

\* every line a file of the model can hold, and what the two regexes and
\* the token scan give for it, computed once
Lines ==
    {Text(<<d, n>>, i) : d \in Dirs, n \in Names, i \in 1..2}
        \cup {EmptyLine} \cup Directives \cup Trailings
Scanned ==
    [l \in Lines |->
        [include |-> MatchInclude(Chars(l)),
         system |-> MatchSystemInclude(Chars(l)),
         token |-> IF MatchInclude(Chars(l)) THEN TokenOf(Chars(l)) ELSE <<>>]]

regex_include(line) == Scanned[line].include
regex_system_include(line) == Scanned[line].system
ExtractToken(line) == Scanned[line].token

(***************************************************************************)
(* Output text: every `out +=` of the program appends whole lines.         *)
(***************************************************************************)
OutLine(m, l) == [m |-> m, line |-> l]
Raw(l) == OutLine("raw", l)                \* line + '\n'
OpenMark(l) == OutLine("open", l)          \* "// " + line + '\n'
EndMark(l) == OutLine("end", l)            \* "// End " + line + '\n'
OmitMark(l) == OutLine("omit", l)          \* "// " + line + " (omitted ...)\n"
\* a variant in which main starts from the empty string
header_Missing == <<>>

header == <<OutLine("banner", EmptyLine)>>

(***************************************************************************)
(* struct file_t                                                           *)
(***************************************************************************)
file_t(p, istate) ==
    [name |-> p, includeFiles |-> <<>>, state |-> istate, is_angle |-> FALSE]

(***************************************************************************)
(* The file system as the program observes it.                             *)
(***************************************************************************)
Unknown == [type |-> "unknown", read |-> FALSE, body |-> <<>>, to |-> NoPath]
NoFile == [Unknown EXCEPT !.type = "none"]
RegularFile == [Unknown EXCEPT !.type = "file"]
LinkTo(q) == [Unknown EXCEPT !.type = "link", !.to = q]

\* fs::canonical: symbolic links resolved
canonical(fs, p) == IF fs[p].type = "link" THEN fs[p].to ELSE p

\* fs::is_regular_file follows symbolic links
is_regular_file(fs, p) ==
    /\ p \in DOMAIN fs
    /\ fs[p].type \in {"file", "link"}

NumDirectives(body) == Cardinality({i \in 1..Len(body) : regex_include(body[i])})

RECURSIVE SumDirectives(_, _)
SumDirectives(fs, ps) ==
    IF ps = {} THEN 0
    ELSE LET p == CHOOSE x \in ps : TRUE
         IN NumDirectives(fs[p].body) + SumDirectives(fs, ps \ {p})

SeqsUpTo(S, n) == UNION {[1..k -> S] : k \in 0..n}

\* the include directives of one file: none, one or two
DirectiveLists ==
    {<<>>} \cup {<<d>> : d \in Directives} \cup {<<d, e>> : d, e \in Directives}

\* the include lines of the file at p: the root has up to two directives,
\* or one include line with text after it; every other file has at most
\* one directive
IncludeLists(p) ==
    IF p = RootPath THEN DirectiveLists \cup {<<d>> : d \in Trailings}
    ELSE {s \in DirectiveLists : Len(s) <= 1}

\* the bodies a file at p can have: no byte at all, or directives between
\* two lines of text
Bodies(p, budget) ==
    {<<>>} \cup
    {<<Text(p, 1)>> \o ds \o <<Text(p, 2)>> :
        ds \in {s \in IncludeLists(p) : Len(s) <= budget}}

VARIABLES
    fsys,            \* the file system
    trailing_nl,     \* whether the last line of a file ends with '\n'
    includePaths,    \* state_t::includePaths
    include_all,     \* global include_all
    verbose,         \* global verbose
    includedFiles,   \* state_t::includedFiles
    stack,           \* frames of parse_include, innermost last
    error,           \* the error_state a failed parse_include returns
    rootFile,        \* state_t::file; the root frame holds it during the run
    content,         \* main's content
    written,         \* what main wrote to the output file or stdout
    exitCode,        \* main's return value
    pc,              \* main: "run" in parse_include, "write" at 410, "done"
    cerr,            \* what log wrote to cerr
    reported,        \* what main printed after the text: dump, tree or nothing
    first,           \* the results of an earlier run on the same files
    sites            \* history: the directives processed so far

inputs == <<trailing_nl, includePaths, include_all, verbose>>
vars == <<inputs, fsys, includedFiles, stack, error, rootFile, content, written,
          exitCode, pc, cerr, reported, first, sites>>

NotWritten == <<OutLine("nothing", EmptyLine)>>
NoRun == [run |-> 0]

\* log(msg): the sink after the call (main.cpp 157-161)
LogMsg(text, arg) == [text |-> text, arg |-> arg]
log(sink, msg) == IF verbose THEN Append(sink, msg) ELSE sink

(***************************************************************************)
(* A frame of parse_include(config, file, out): the parameters, the        *)
(* locals, the position of the stream (pos lines read, eof) and of the     *)
(* control (at: "open", "scan" the while loop, "probe" the for loop with   *)
(* idx the next element of search_paths).  matches is history: the         *)
(* canonical files the for loop found for the current directive.           *)
(***************************************************************************)
Frame(f, o) ==
    [file |-> f, out |-> o, at |-> "open", pos |-> 0, eof |-> FALSE,
     search_paths |-> <<>>, line |-> EmptyLine, temp |-> file_t(NoPath, I_EXPENDED),
     includeFile |-> NoPath, found |-> FALSE, content |-> <<>>, idx |-> 0,
     matches |-> <<>>]

\* history: one directive, as it was processed
Site(fr, st) ==
    [file |-> fr.file.name, by_angle |-> fr.file.is_angle, line |-> fr.line,
     probed |-> fr.search_paths, matches |-> fr.matches, state |-> st]

Top == stack[Len(stack)]
SetTop(fr) == [stack EXCEPT ![Len(stack)] = fr]

\* a variant in which a caller goes on after a failed nested call
Running_IgnoringError == pc = "run" /\ stack # <<>>

\* parse_include is executing: no call has failed (main.cpp 341-343, 406)
Running == pc = "run" /\ error.e = E_NO_ERROR /\ stack # <<>>

(***************************************************************************)
(* After parse_config: the root is a regular file, canonical; every -I     *)
(* directory is canonical.                                                 *)
(***************************************************************************)
Init ==
    /\ fsys = [p \in Paths |-> IF p = RootPath THEN RegularFile ELSE Unknown]
    /\ trailing_nl \in BOOLEAN
    /\ includePaths \in SeqsUpTo({<<d>> : d \in Dirs}, MaxPaths)
    /\ include_all \in BOOLEAN
    /\ verbose \in BOOLEAN
    /\ includedFiles = {}
    /\ stack = <<Frame(file_t(RootPath, I_EXPENDED), header)>>
    /\ error = error_state(E_NO_ERROR, NoPath)
    /\ rootFile = file_t(RootPath, I_EXPENDED)
    /\ content = header
    /\ written = NotWritten
    /\ exitCode = -1
    /\ pc = "run"
    /\ cerr = <<>>
    /\ reported = "none"
    /\ first = NoRun
    /\ sites = <<>>

(***************************************************************************)
(* parse_include 290-302: open the file.                                   *)
(***************************************************************************)
\* the path the error message names (main.cpp 293)
OpenErrorPath(f) == rootFile.name

OpenFail ==
    /\ Running /\ Top.at = "open"
    /\ error' = error_state(E_FILE_ERROR, OpenErrorPath(Top.file))
    /\ UNCHANGED <<inputs, fsys, includedFiles, stack, rootFile, content,
                   written, exitCode, pc, cerr, reported, first, sites>>

\* a variant that adds the file's directory inside the verbose branch
SearchPaths_WhenVerbose(f) ==
    IF ~f.is_angle /\ verbose THEN <<parent_path(f.name)>> \o includePaths
    ELSE includePaths

\* search_paths of a frame (main.cpp 298-302)
SearchPaths(f) ==
    IF ~f.is_angle THEN <<parent_path(f.name)>> \o includePaths ELSE includePaths

\* a variant that does not record the file
Opened_NotRecorded(f) == includedFiles

\* a variant that keeps only the file being opened
Opened_OnlyCurrent(f) == {f.name}

\* includedFiles once the file is open (main.cpp 295)
Opened(f) == includedFiles \cup {f.name}

OpenOk ==
    /\ Running /\ Top.at = "open"
    /\ LET p == Top.file.name
           budget == MaxDirectives - SumDirectives(fsys, Paths)
       IN \E b \in (IF fsys[p].read THEN {fsys[p].body} ELSE Bodies(p, budget)) :
            fsys' = [fsys EXCEPT ![p].read = TRUE, ![p].body = b]
    /\ includedFiles' = Opened(Top.file)
    /\ cerr' = IF ~Top.file.is_angle
               THEN log(cerr, LogMsg("Add current path to search",
                                     parent_path(Top.file.name)))
               ELSE cerr
    /\ stack' = SetTop([Top EXCEPT !.at = "scan",
                                   !.search_paths = SearchPaths(Top.file)])
    /\ UNCHANGED <<inputs, error, rootFile, content, written, exitCode, pc,
                   reported, first, sites>>

(***************************************************************************)
(* parse_include 303-304: while(!fin.eof()) getline(fin, line).            *)
(***************************************************************************)
\* the line getline stores on call number k, and fin.eof() after it
GetLine(e, k) == IF k <= Len(e.body) THEN e.body[k] ELSE EmptyLine
EofAfter(e, k) == IF k < Len(e.body) THEN FALSE
                  ELSE IF k = Len(e.body) THEN ~trailing_nl
                  ELSE TRUE

\* 305-306: a line that is no directive
PassLine ==
    /\ Running /\ Top.at = "scan" /\ ~Top.eof
    /\ LET e == fsys[Top.file.name]
           k == Top.pos + 1
           line == GetLine(e, k)
       IN /\ ~regex_include(line)
          /\ stack' = SetTop([Top EXCEPT !.pos = k, !.eof = EofAfter(e, k),
                                         !.line = line,
                                         !.out = Top.out \o <<Raw(line)>>])
    /\ UNCHANGED <<inputs, fsys, includedFiles, error, rootFile, content,
                   written, exitCode, pc, cerr, reported, first, sites>>

\* 308-328: a directive; temp, includeFile, found, content are set up
BeginDirective ==
    /\ Running /\ Top.at = "scan" /\ ~Top.eof
    /\ LET e == fsys[Top.file.name]
           k == Top.pos + 1
           line == GetLine(e, k)
       IN /\ regex_include(line)
          /\ stack' = SetTop([Top EXCEPT
                !.pos = k, !.eof = EofAfter(e, k), !.line = line,
                !.temp = [file_t(NoPath, I_EXPENDED) EXCEPT
                             !.is_angle = regex_system_include(line)],
                !.includeFile = ExtractToken(line),
                !.found = FALSE, !.content = <<>>, !.idx = 1, !.at = "probe",
                !.matches = <<>>])
          /\ cerr' = log(cerr, LogMsg("Found include file",
                                      <<ExtractToken(line), regex_system_include(line)>>))
    /\ UNCHANGED <<inputs, fsys, includedFiles, error, rootFile, content,
                   written, exitCode, pc, reported, first, sites>>

(***************************************************************************)
(* parse_include 329-347: for(auto& p : search_paths).                     *)
(***************************************************************************)
Probing == Running /\ Top.at = "probe" /\ Top.idx <= Len(Top.search_paths)
Candidate == PathJoin(Top.search_paths[Top.idx], Top.includeFile)   \* 330

\* what the first look at a path can find there: nothing, a regular file, or
\* a symbolic link to the file of that name in another directory
Observed(p) ==
    IF fsys[p].type # "unknown" THEN {fsys[p]}
    ELSE {NoFile, RegularFile} \cup
         {LinkTo(q) : q \in {r \in Paths : r # p /\ r[2] = p[2] /\ fsys[r].type = "file"}}

\* 336: the once-only test
AlreadyIncluded(all, included, p) == ~all /\ p \in included

\* 345: file.includeFiles.push_back(temp)
PushChild(f, t) == [f EXCEPT !.includeFiles = Append(f.includeFiles, t)]

\* 331 false: no regular file in this directory
ProbeMiss ==
    /\ Probing
    /\ \E e \in Observed(Candidate) :
        LET fs == [fsys EXCEPT ![Candidate] = e]
        IN /\ ~is_regular_file(fs, Candidate)
           /\ fsys' = fs
    /\ stack' = SetTop([Top EXCEPT !.idx = Top.idx + 1])
    /\ UNCHANGED <<inputs, includedFiles, error, rootFile, content, written,
                   exitCode, pc, cerr, reported, first, sites>>

\* 332-338, 345: found, and expanded before
ProbeSkip ==
    /\ Probing
    /\ \E e \in Observed(Candidate) :
        LET fs == [fsys EXCEPT ![Candidate] = e]
            canonicalFile == canonical(fs, Candidate)
            temp == [Top.temp EXCEPT !.name = canonicalFile,
                                     !.state = I_ALREADY_INCLUDED]
        IN /\ is_regular_file(fs, Candidate)
           /\ AlreadyIncluded(include_all, includedFiles, canonicalFile)
           /\ fsys' = fs
           /\ stack' = SetTop([Top EXCEPT !.found = TRUE, !.temp = temp,
                                          !.file = PushChild(Top.file, temp),
                                          !.idx = Top.idx + 1,
                                          !.matches = Append(Top.matches, canonicalFile)])
           /\ cerr' = log(log(cerr, LogMsg("Include file expends to", canonicalFile)),
                          LogMsg("Include file already exists, ignore", NoPath))
    /\ UNCHANGED <<inputs, includedFiles, error, rootFile, content, written,
                   exitCode, pc, reported, first, sites>>

\* 332-335, 340-341: found, parse_include(config, temp, content) is called
Call ==
    /\ Probing
    /\ Len(stack) < MaxDepth
    /\ \E e \in Observed(Candidate) :
        LET fs == [fsys EXCEPT ![Candidate] = e]
            canonicalFile == canonical(fs, Candidate)
            temp == [Top.temp EXCEPT !.name = canonicalFile,
                                     !.state = I_EXPENDED]
        IN /\ is_regular_file(fs, Candidate)
           /\ ~AlreadyIncluded(include_all, includedFiles, canonicalFile)
           /\ fsys' = fs
           /\ stack' = Append(SetTop([Top EXCEPT !.found = TRUE, !.temp = temp,
                                    !.matches = Append(Top.matches, canonicalFile)]),
                              Frame(temp, Top.content))
           /\ cerr' = log(cerr, LogMsg("Include file expends to", canonicalFile))
    /\ UNCHANGED <<inputs, includedFiles, error, rootFile, content, written,
                   exitCode, pc, reported, first, sites>>

\* 303, 365-366 in a nested call, then 341-345 in the caller:
\* the callee wrote through its references to the caller's temp and content
Return ==
    /\ Running /\ Top.at = "scan" /\ Top.eof
    /\ Len(stack) > 1
    /\ LET caller == stack[Len(stack) - 1]
           temp == Top.file
       IN stack' = Append(SubSeq(stack, 1, Len(stack) - 2),
                          [caller EXCEPT !.temp = temp, !.content = Top.out,
                                         !.file = PushChild(caller.file, temp),
                                         !.idx = caller.idx + 1])
    /\ UNCHANGED <<inputs, fsys, includedFiles, error, rootFile, content,
                   written, exitCode, pc, cerr, reported, first, sites>>

\* a variant that comments out a directive it could not resolve
DirectiveText_NotFoundCommented(found, temp, line, body) ==
    IF ~found THEN <<OmitMark(line)>>
    ELSE IF temp.state = I_EXPENDED
         THEN <<OpenMark(line)>> \o body \o <<EndMark(line)>>
         ELSE <<OmitMark(line)>>

\* the text a directive leaves in out (main.cpp 348-362)
DirectiveText(found, temp, line, body) ==
    IF ~found THEN <<Raw(line)>>
    ELSE IF temp.state = I_EXPENDED
         THEN <<OpenMark(line)>> \o body \o <<EndMark(line)>>
         ELSE <<OmitMark(line)>>

\* 350-351: temp when no directory had the file
NotFoundNode(temp, includeFile) ==
    [temp EXCEPT !.name = includeFile, !.state = I_NOT_FOUND]

\* 348-362: after the loop
EndDirective ==
    /\ Running /\ Top.at = "probe" /\ Top.idx > Len(Top.search_paths)
    /\ LET temp == IF ~Top.found THEN NotFoundNode(Top.temp, Top.includeFile)
                   ELSE Top.temp
           file == IF ~Top.found THEN PushChild(Top.file, temp) ELSE Top.file
       IN stack' = SetTop([Top EXCEPT
             !.temp = temp, !.file = file, !.at = "scan",
             !.out = Top.out \o DirectiveText(Top.found, Top.temp, Top.line,
                                              Top.content)])
          /\ sites' = Append(sites, Site(Top, temp.state))
    /\ cerr' = IF ~Top.found
               THEN log(cerr, LogMsg("Ignore include file",
                                     <<Top.includeFile, Top.temp.is_angle>>))
               ELSE cerr
    /\ UNCHANGED <<inputs, fsys, includedFiles, error, rootFile, content,
                   written, exitCode, pc, reported, first>>

\* 342: if(err != E_NO_ERROR) return err, one frame at a time
ReturnError ==
    /\ pc = "run" /\ error.e # E_NO_ERROR /\ stack # <<>>
    /\ stack' = SubSeq(stack, 1, Len(stack) - 1)
    /\ UNCHANGED <<inputs, fsys, includedFiles, error, rootFile, content,
                   written, exitCode, pc, cerr, reported, first, sites>>

(***************************************************************************)
(* main 402-430                                                            *)
(***************************************************************************)
\* 403: parse_include(config, config.file, content) returns E_NO_ERROR
MainReturn ==
    /\ Running /\ Top.at = "scan" /\ Top.eof
    /\ Len(stack) = 1
    /\ stack' = <<>>
    /\ rootFile' = Top.file
    /\ content' = Top.out
    /\ pc' = "write"
    /\ UNCHANGED <<inputs, fsys, includedFiles, error, written, exitCode,
                   cerr, reported, first, sites>>

\* 406-408: the error is printed and returned
MainFail ==
    /\ pc = "run" /\ error.e # E_NO_ERROR /\ stack = <<>>
    /\ exitCode' = error.e
    /\ pc' = "done"
    /\ UNCHANGED <<inputs, fsys, includedFiles, stack, error, rootFile,
                   content, written, cerr, reported, first, sites>>

\* 425-429: what main prints once the text is out
Report(tree) == IF verbose THEN "dump" ELSE IF tree THEN "tree" ELSE "none"

\* 410-430: dry_run, outfilename, whether the output file opens, and tree
\* are inputs read here for the first time
MainWrite ==
    /\ pc = "write"
    /\ \E dry_run \in BOOLEAN, toFile \in BOOLEAN, opens \in BOOLEAN,
          tree \in BOOLEAN :
        IF dry_run
        THEN written' = written /\ exitCode' = E_NO_ERROR
                                /\ reported' = Report(tree)
        ELSE IF toFile /\ ~opens
             THEN written' = written /\ exitCode' = E_FILE_ERROR
                                     /\ reported' = reported
             ELSE written' = content /\ exitCode' = E_NO_ERROR
                                     /\ reported' = Report(tree)
    /\ pc' = "done"
    /\ UNCHANGED <<inputs, fsys, includedFiles, stack, error, rootFile,
                   content, cerr, first, sites>>

Next ==
    \/ OpenFail
    \/ OpenOk
    \/ PassLine
    \/ BeginDirective
    \/ ProbeMiss
    \/ ProbeSkip
    \/ Call
    \/ Return
    \/ EndDirective
    \/ ReturnError
    \/ MainReturn
    \/ MainFail
    \/ MainWrite

Spec == Init /\ [][Next]_vars

(***************************************************************************)
(* The run with scheduling: the program is sequential and every step       *)
(* that can be taken is taken.  SpecOnce is the run without --all.         *)
(***************************************************************************)
InitOnce == Init /\ ~include_all
SpecOnce == InitOnce /\ [][Next]_vars /\ WF_vars(Next)

(***************************************************************************)
(* Two runs of the program on the same files, search paths and             *)
(* include_all, the second with the other value of verbose: once a run     *)
(* has ended with success, main is entered again; what the first run       *)
(* produced is kept in `first`.  Every open succeeds in these runs; the    *)
(* quiet run is the first, the verbose one the second.                     *)
(***************************************************************************)
RunOf(v, text, tree, included) ==
    [run |-> 1, verbose |-> v, content |-> text, file |-> tree,
     includedFiles |-> included]

Rerun ==
    /\ pc = "done" /\ error.e = E_NO_ERROR /\ first = NoRun
    /\ first' = RunOf(verbose, content, rootFile, includedFiles)
    /\ verbose' = ~verbose
    /\ includedFiles' = {}
    /\ stack' = <<Frame(file_t(RootPath, I_EXPENDED), header)>>
    /\ error' = error_state(E_NO_ERROR, NoPath)
    /\ rootFile' = file_t(RootPath, I_EXPENDED)
    /\ content' = header
    /\ written' = NotWritten
    /\ exitCode' = -1
    /\ pc' = "run"
    /\ cerr' = <<>>
    /\ reported' = "none"
    /\ sites' = <<>>
    /\ UNCHANGED <<trailing_nl, includePaths, include_all, fsys>>

NextTwoRuns ==
    \/ OpenOk
    \/ PassLine
    \/ BeginDirective
    \/ ProbeMiss
    \/ ProbeSkip
    \/ Call
    \/ Return
    \/ EndDirective
    \/ MainReturn
    \/ MainWrite
    \/ Rerun

InitTwoRuns == Init /\ ~verbose
SpecTwoRuns == InitTwoRuns /\ [][NextTwoRuns]_vars

(***************************************************************************)
(* Vocabulary of the properties.                                           *)
(***************************************************************************)
Range(s) == {s[i] : i \in DOMAIN s}
Occurrences(s, x) == Cardinality({i \in DOMAIN s : s[i] = x})
Before(s, x, y) == \E i, j \in DOMAIN s : i < j /\ s[i] = x /\ s[j] = y

\* parse_include returned E_NO_ERROR to main: content is the output text
Succeeded == pc \in {"write", "done"} /\ error.e = E_NO_ERROR

\* the directory of the file a directive stands in
OwnDir(site) == parent_path(site.file)
\* the file of that directory the directive's token names
OwnFile(site) == PathJoin(OwnDir(site), site.line.tok)

\* the directives processed so far that name the header h in quotes
QuoteSitesOf(h) ==
    {i \in DOMAIN sites : /\ sites[i].line.kind = "quote"
                          /\ sites[i].matches # <<>>
                          /\ sites[i].matches[1] = h}

\* the file h has a body to show
HasBody(h) == fsys[h].read /\ fsys[h].body # <<>>

(***************************************************************************)
(* C9: the file-error outcome names the path of the file that failed to    *)
(* open, also when that file is a nested include and not the root.         *)
(* The frame whose open failed is the innermost one, still at "open".      *)
(***************************************************************************)
C9_ErrorNamesOffendingPath ==
    (error.e = E_FILE_ERROR /\ stack # <<>> /\ Top.at = "open")
        => error.w = Top.file.name

(***************************************************************************)
(* C3: for every angle-delimited directive the directories probed are      *)
(* exactly the caller-supplied search paths, in order; an angle include    *)
(* of a file that exists only next to the including file is NotFound.      *)
(***************************************************************************)
C3_AngleProbesSearchPathsOnly ==
    \A i \in DOMAIN sites :
        sites[i].line.kind = "angle" =>
            /\ sites[i].probed = includePaths
            /\ (\A d \in Range(includePaths) :
                    ~is_regular_file(fsys, PathJoin(d, sites[i].line.tok)))
                => sites[i].state = I_NOT_FOUND

(***************************************************************************)
(* C4: for every quote-delimited directive, however the including file     *)
(* was introduced, the directories probed are the directory of the         *)
(* including file and then the caller-supplied search paths, in order.     *)
(***************************************************************************)
C4_QuoteProbesOwnDirFirst ==
    \A i \in DOMAIN sites :
        sites[i].line.kind = "quote" =>
            sites[i].probed = <<OwnDir(sites[i])>> \o includePaths

(***************************************************************************)
(* C2: a quote-delimited include whose including file's directory holds a  *)
(* regular file of that name resolves to that file and to nothing else:    *)
(* one child node, the own-directory file, whatever the search             *)
(* directories hold.                                                       *)
(***************************************************************************)
C2_OwnDirectoryWins ==
    \A i \in DOMAIN sites :
        (sites[i].line.kind = "quote" /\ fsys[OwnFile(sites[i])].type = "file")
            => sites[i].matches = <<OwnFile(sites[i])>>

(***************************************************************************)
(* C1: once-only.  Without --all, when two directives name the same        *)
(* quote-delimited header, the successful run's output holds the header's  *)
(* body exactly once, and at most one of the two directives is expanded    *)
(* (the other is the omission comment).                                    *)
(***************************************************************************)
C1_OnceOnly ==
    (Succeeded /\ ~include_all) =>
        \A h \in Paths :
            (Cardinality(QuoteSitesOf(h)) >= 2 /\ HasBody(h)) =>
                /\ Occurrences(content, Raw(Text(h, 1))) = 1
                /\ Cardinality({i \in QuoteSitesOf(h) :
                                   sites[i].state = I_EXPENDED}) <= 1

(***************************************************************************)
(* C6: all-mode.  With --all, when two directives name the same            *)
(* quote-delimited header (the run ended, so the includes are acyclic),    *)
(* the output holds the header's body exactly twice and no omission        *)
(* comment.                                                                *)
(***************************************************************************)
C6_AllModeTwice ==
    (Succeeded /\ include_all) =>
        /\ \A h \in Paths \ {RootPath} :
              (Cardinality(QuoteSitesOf(h)) = 2 /\ HasBody(h)) =>
                  Occurrences(content, Raw(Text(h, 1))) = 2
        /\ \A i \in DOMAIN content : content[i].m # "omit"

(***************************************************************************)
(* C10: every line of every opened file that is no directive is in the     *)
(* output unchanged, and the lines of one file keep their order.           *)
(***************************************************************************)
C10_NonDirectivePassthrough ==
    Succeeded =>
        \A f \in Paths :
            fsys[f].read =>
                LET body == fsys[f].body
                IN /\ \A i \in DOMAIN body :
                        ~regex_include(body[i]) => Raw(body[i]) \in Range(content)
                   /\ \A i, j \in DOMAIN body :
                        (i < j /\ ~regex_include(body[i]) /\ ~regex_include(body[j]))
                            => Before(content, Raw(body[i]), Raw(body[j]))

(***************************************************************************)
(* C5: cycle termination.  Without --all: a file is in includedFiles as    *)
(* soon as it is open, before any of its lines is read; a directive that   *)
(* resolves to a file that is being expanded (the root too) adds a child   *)
(* with status AlreadyIncluded and calls nothing; and the run ends.        *)
(***************************************************************************)
BeingExpanded == {stack[i].file.name : i \in DOMAIN stack}

C5_BackEdge ==
    /\ Probing /\ ~include_all
    /\ is_regular_file(fsys', Candidate)
    /\ canonical(fsys', Candidate) \in BeingExpanded

C5_Skipped ==
    /\ Len(stack') = Len(stack)
    /\ LET fr == stack'[Len(stack)]
       IN /\ fr.temp.name = canonical(fsys', Candidate)
          /\ fr.temp.state = I_ALREADY_INCLUDED
          /\ fr.file.includeFiles = Append(Top.file.includeFiles, fr.temp)
          /\ fr.idx = Top.idx + 1

C5_CycleTermination ==
    /\ [](\A i \in DOMAIN stack :
            stack[i].at # "open" => stack[i].file.name \in includedFiles)
    /\ [][C5_BackEdge => C5_Skipped]_vars
    /\ (~include_all => <>(pc = "done"))

\* a.h includes "b.h", b.h includes "a.h": the run ended, the back edge skipped
C5_Witness ==
    /\ pc = "done" /\ error.e = E_NO_ERROR /\ ~include_all
    /\ \E i, j \in DOMAIN sites :
        /\ sites[j].file = RootPath /\ sites[j].matches = <<<<"A", "b">>>>
        /\ sites[j].state = I_EXPENDED
        /\ sites[i].file = <<"A", "b">> /\ sites[i].matches = <<RootPath>>
        /\ sites[i].state = I_ALREADY_INCLUDED

(***************************************************************************)
(* C7: not-found passthrough.  A directive for which no probed directory   *)
(* has a regular file of that name: the line goes to the output            *)
(* unchanged, one child with status NotFound and the token as its path     *)
(* is appended, nothing is opened, includedFiles stays as it is.           *)
(***************************************************************************)
C7_NoMatch ==
    /\ Running /\ Top.at = "probe" /\ ~Top.found
    /\ Top.idx > Len(Top.search_paths)

C7_PassedThrough ==
    /\ Len(stack') = Len(stack)
    /\ includedFiles' = includedFiles
    /\ LET fr == stack'[Len(stack)]
       IN /\ fr.out = Top.out \o <<Raw(Top.line)>>
          /\ fr.file.includeFiles =
                Append(Top.file.includeFiles,
                       [name |-> Top.line.tok, includeFiles |-> <<>>,
                        state |-> I_NOT_FOUND,
                        is_angle |-> (Top.line.kind = "angle")])
          /\ fr.at = "scan" /\ fr.pos = Top.pos

\* while nothing is found, the directive opens nothing and records nothing
C7_NothingOpened ==
    (Running /\ Top.at = "probe" /\ ~Top.found /\ Len(stack') = Len(stack)
        /\ ~stack'[Len(stack)].found)
    => (includedFiles' = includedFiles /\ Top.matches = <<>>)

C7_NotFoundPassthrough ==
    /\ [][C7_NoMatch => C7_PassedThrough]_vars
    /\ [][C7_NothingOpened]_vars

\* an angle include that no search directory has, after the run
C7_Witness ==
    /\ Succeeded /\ includePaths # <<>>
    /\ \E i \in DOMAIN sites :
        /\ sites[i].line.kind = "angle"
        /\ sites[i].state = I_NOT_FOUND
        /\ Raw(sites[i].line) \in Range(content)

(***************************************************************************)
(* C8: abort on open failure.  Once an open has failed, the outcome is     *)
(* the file error: every frame returns without reading a further line,     *)
(* main returns E_FILE_ERROR, and nothing is written.                      *)
(***************************************************************************)
C8_Failed == error.e # E_NO_ERROR

C8_Unwinds ==
    C8_Failed =>
        /\ error' = error /\ written' = written /\ content' = content
        /\ IF stack # <<>>
           THEN stack' = SubSeq(stack, 1, Len(stack) - 1) /\ pc' = pc
           ELSE stack' = stack /\ pc' = "done" /\ exitCode' = E_FILE_ERROR

C8_AbortOnOpenFailure ==
    /\ [](C8_Failed => /\ error.e = E_FILE_ERROR
                       /\ written = NotWritten
                       /\ pc \in {"run", "done"}
                       /\ (pc = "done" => exitCode = E_FILE_ERROR))
    /\ [][C8_Unwinds]_vars
    /\ [][(Running /\ Top.at = "open" /\ stack' = stack)
            => error'.e = E_FILE_ERROR]_vars

\* a nested include failed to open after text had been accumulated
C8_Witness ==
    /\ pc = "done" /\ exitCode = E_FILE_ERROR /\ C8_Failed
    /\ Cardinality(includedFiles) >= 2
    /\ written = NotWritten

(***************************************************************************)
(* The tree of file_t nodes.                                               *)
(***************************************************************************)
RECURSIVE Nodes(_)
Nodes(f) == {f} \cup UNION {Nodes(f.includeFiles[i]) : i \in DOMAIN f.includeFiles}

\* the trees of a state: the one main keeps and those the frames build
Trees == {rootFile} \cup {stack[i].file : i \in DOMAIN stack}

RECURSIVE ExpandedNodes(_, _), ExpandedAmong(_, _, _)
ExpandedAmong(kids, n, p) ==
    IF n = 0 THEN 0
    ELSE ExpandedNodes(kids[n], p) + ExpandedAmong(kids, n - 1, p)
\* the number of nodes of the tree f with path p and status Expanded
ExpandedNodes(f, p) ==
    (IF f.name = p /\ f.state = I_EXPENDED THEN 1 ELSE 0)
        + ExpandedAmong(f.includeFiles, Len(f.includeFiles), p)

(***************************************************************************)
(* C12: includedFiles only grows.  In every step the set after the step    *)
(* is a superset of the set before it, also when a subtree finishes and    *)
(* when a nested expansion fails.                                          *)
(***************************************************************************)
C12_IncludedFilesOnlyGrows == [][includedFiles \subseteq includedFiles']_vars

\* a subtree finished, then a later nested open failed and main returned
C12_Witness ==
    /\ pc = "done" /\ error.e = E_FILE_ERROR /\ stack = <<>>
    /\ sites # <<>>
    /\ Cardinality(includedFiles) >= 2

(***************************************************************************)
(* C14: expanded means inlined.  When a directive is done and one of the   *)
(* nodes it created has status Expanded, the text it adds to the output    *)
(* is the directive as a comment, the text the recursive calls produced,   *)
(* and the closing marker: never the omission comment, and no body a       *)
(* recursive call produced is dropped.                                     *)
(***************************************************************************)
C14_Site ==
    /\ Running /\ Top.at = "probe" /\ Top.found
    /\ Top.idx > Len(Top.search_paths)

\* the nodes the directive created
C14_Kids ==
    LET kids == Top.file.includeFiles
    IN SubSeq(kids, Len(kids) - Len(Top.matches) + 1, Len(kids))

C14_Inlined ==
    (\E k \in DOMAIN C14_Kids : C14_Kids[k].state = I_EXPENDED) =>
        stack'[Len(stack)].out =
            Top.out \o <<OpenMark(Top.line)>> \o Top.content \o <<EndMark(Top.line)>>

C14_ExpandedMeansInlined == [][C14_Site => C14_Inlined]_vars

(***************************************************************************)
(* C15: skipped nodes are leaves.  In every tree, a node with status       *)
(* AlreadyIncluded or NotFound has no children.                            *)
(***************************************************************************)
C15_SkippedNodesAreLeaves ==
    \A t \in Trees : \A n \in Nodes(t) :
        n.state \in {I_ALREADY_INCLUDED, I_NOT_FOUND} => n.includeFiles = <<>>

(***************************************************************************)
(* C16: with --all, once a cyclic chain of includes was followed (a        *)
(* directive of file x resolved to y and a directive of y resolved to x),  *)
(* the run has no successful outcome.                                      *)
(***************************************************************************)
C16_Cycle ==
    \E i, j \in DOMAIN sites :
        /\ sites[i].file \in Range(sites[j].matches)
        /\ sites[j].file \in Range(sites[i].matches)

C16_CycleNeverEnds == (include_all /\ C16_Cycle) => ~Succeeded

(***************************************************************************)
(* C18: without --all, after a successful run every canonical path is      *)
(* the path of at most one node with status Expanded, the root counted.    *)
(***************************************************************************)
C18_ExpandedAtMostOnce ==
    (Succeeded /\ ~include_all) =>
        \A p \in Paths : ExpandedNodes(rootFile, p) <= 1

(***************************************************************************)
(* C19: line count.  A file without include directive contributes one      *)
(* output line per source line: after a successful run on a root without   *)
(* directive, the output is the banner and as many lines as the root has;  *)
(* no empty line is added at the end, an empty root adds no line.          *)
(***************************************************************************)
C19_LineCountPreserved ==
    (Succeeded /\ NumDirectives(fsys[RootPath].body) = 0) =>
        Len(content) = Len(header) + Len(fsys[RootPath].body)

(***************************************************************************)
(* C17: root invocation.  The root frame is the root file with status      *)
(* Expanded; its text starts as the banner alone; the root is in           *)
(* includedFiles before its first line is read; what main keeps is the     *)
(* root frame's text as it is.  So the output of a successful run is the   *)
(* banner, then the root's first line (the files of the model begin and    *)
(* end with a line that is no directive), and after the root's last line   *)
(* nothing but lines the scan loop itself added: no marker around the      *)
(* root's body.                                                            *)
(***************************************************************************)
C17_Banner == <<OutLine("banner", EmptyLine)>>

C17_RootFrame ==
    stack # <<>> =>
        /\ stack[1].file.name = RootPath
        /\ stack[1].file.state = I_EXPENDED
        /\ stack[1].pos = 0 => stack[1].out = C17_Banner
        /\ stack[1].pos > 0 => RootPath \in includedFiles

C17_Output ==
    Succeeded =>
        /\ rootFile.name = RootPath /\ rootFile.state = I_EXPENDED
        /\ SubSeq(content, 1, 1) = C17_Banner
        /\ LET body == fsys[RootPath].body
           IN body # <<>> =>
                /\ Len(content) >= 2 /\ content[2] = Raw(body[1])
                /\ \E k \in DOMAIN content :
                      /\ content[k] = Raw(body[Len(body)])
                      /\ \A j \in DOMAIN content : j > k => content[j] = Raw(EmptyLine)

C17_RootInvocation ==
    /\ [](C17_RootFrame /\ C17_Output)
    /\ [][(pc = "run" /\ pc' = "write") => content' = stack[1].out]_vars

\* a run that expanded an include of the root and wrote the text
C17_Witness ==
    /\ pc = "done" /\ exitCode = E_NO_ERROR /\ written = content
    /\ fsys[RootPath].body # <<>>
    /\ \E i \in DOMAIN content : content[i].m = "open"

(***************************************************************************)
(* C11: directive detection.  A line that has text other than whitespace   *)
(* after the closing delimiter of its token (a trailing comment, also one  *)
(* that holds '>' or '"') is no directive: no frame resolves it, no node   *)
(* comes from it, and it goes to the output as it is.                      *)
(***************************************************************************)
C11_TrailingText(line) ==
    /\ line.kind \in {"quote", "angle"}
    /\ \E i \in DOMAIN line.tail : line.tail[i] # " "

C11_DirectiveDetection ==
    /\ \A i \in DOMAIN stack :
          stack[i].at = "probe" => ~C11_TrailingText(stack[i].line)
    /\ \A i \in DOMAIN sites : ~C11_TrailingText(sites[i].line)
    /\ Succeeded =>
          \A i \in DOMAIN fsys[RootPath].body :
              C11_TrailingText(fsys[RootPath].body[i])
                  => Raw(fsys[RootPath].body[i]) \in Range(content)

(***************************************************************************)
(* C13: verbose does not affect expansion.  Of two runs on the same        *)
(* files, search paths and include_all that differ only in verbose, the    *)
(* second ends with the output text, the tree and the includedFiles set    *)
(* of the first; and cerr gets text only when verbose is set.              *)
(***************************************************************************)
C13_VerboseDoesNotAffectExpansion ==
    /\ ~verbose => cerr = <<>>
    /\ first # NoRun =>
          /\ verbose # first.verbose
          /\ includedFiles \subseteq first.includedFiles
          /\ pc \in {"write", "done"} =>
                /\ content = first.content
                /\ rootFile = first.file
                /\ includedFiles = first.includedFiles

\* the second run, the verbose one, has ended: it logged its decisions, and
\* the tree has an expanded and an omitted include
C13_Witness ==
    /\ first # NoRun /\ pc = "done" /\ verbose /\ cerr # <<>>
    /\ \E n \in Nodes(rootFile) : n.state = I_ALREADY_INCLUDED
    /\ \E i \in DOMAIN content : content[i].m = "open"

====
